---- MODULE Spec2Model ----
(***************************************************************************)
(* The in-memory session store and the adaptive quiz engine of app.py,     *)
(* with the helpers of utils.py that decide their behaviour.               *)
(*                                                                         *)
(* State: the two module-level dictionaries SESSIONS and SESSION_BACKUPS,  *)
(* the wall clock read by datetime.now(), the last HTTP response, the      *)
(* object sharing between a live session and its backup, and the position  *)
(* of a cleanup_sessions() sweep that is still running.  env names the     *)
(* class of behaviour of the external parties (the generative model and    *)
(* the HTTP client) in the run: it is chosen initially and never changes.  *)
(*                                                                         *)
(* Strings the generative model or the client may send are represented by  *)
(* the properties the code tests on them (membership in the asked set,     *)
(* the words of the "Judgment:" line).  A history record keeps question,   *)
(* feedback, level and skill; user_answer, correct_answer and timestamp    *)
(* are stored verbatim by record_response and read by no decision.         *)
(***************************************************************************)
EXTENDS Integers, Sequences, FiniteSets, TLC

VARIABLES SESSIONS, SESSION_BACKUPS, now, resp, shared, sweep, env

vars == <<SESSIONS, SESSION_BACKUPS, now, resp, shared, sweep, env>>

(***************************************************************************)
(* Bounds of the model.                                                    *)
(***************************************************************************)
MaxSessions == 2
MaxTotalHistory == 11
MaxCrowdHistory == 12
MaxWideHistory == 2
MaxNow == 31
MaxConcepts == 2

(***************************************************************************)
(* Program constants.                                                      *)
(***************************************************************************)
total_quiz_questions == 10
SessionTimeoutMinutes == 30
MinLevel == 1
MaxLevel == 5
EvalAttempts == 3
QuestionAttempts == 3
KnownTopicConcepts == 5
GenericTopicConcepts == 3

SessionIds == 1..MaxSessions
NoSession == 0

\* Python's None for the optional key final_percentage_score.
None == <<>>

Min(a, b) == IF a < b THEN a ELSE b
Max(a, b) == IF a > b THEN a ELSE b

(***************************************************************************)
(* Texts.  A question text is a real question of the model (numbered), one *)
(* of get_question's error messages (which embed concept and level), the   *)
(* fixed fallback text of /answer, or a client value that is not a string. *)
(***************************************************************************)
Text(kind, n, concept, level) ==
    [kind |-> kind, n |-> n, concept |-> concept, level |-> level]

QuestionText(n) == Text("question", n, 0, 0)
FallbackText == Text("fallback", 0, 0, 0)
NumberValue == Text("number", 0, 0, 0)
IsStr(text) == text.kind # "number"

(***************************************************************************)
(* utils.py: concept listing.                                              *)
(* A reply of the model is either unusable (not JSON, not a list, an entry *)
(* without its keys, or the call raised) or a list of n concept objects;   *)
(* all() over an empty list is true, so an empty list passes validation.   *)
(* A concept is represented by its position in the list.                   *)
(***************************************************************************)
ConceptList(n) == [i \in 1..n |-> i]

KnownTopics == {"algebra", "calculus", "geometry", "statistics", "basic arithmetic"}

fallback_concepts(topic) ==
    IF topic \in KnownTopics
    THEN ConceptList(KnownTopicConcepts)
    ELSE ConceptList(GenericTopicConcepts)

get_math_concepts(topic, reply) ==
    IF reply.kind = "list" THEN ConceptList(reply.n) ELSE fallback_concepts(topic)

(***************************************************************************)
(* utils.py: question generation.                                          *)
(* join_raises: ", ".join(list(asked_set)[-5:]) runs before the try block  *)
(* and raises TypeError when one of the five joined elements is not a      *)
(* string; which five are joined depends on the set's iteration order.     *)
(***************************************************************************)
JoinedAsked == 5

join_may_raise(asked_set) == \E t \in asked_set : ~IsStr(t)

join_must_raise(asked_set) ==
    join_may_raise(asked_set) /\ Cardinality(asked_set) <= JoinedAsked

QData(question, correct_answer, skill, difficulty, error) ==
    [question |-> question, correct_answer |-> correct_answer, skill |-> skill,
     difficulty |-> difficulty, error |-> error]

\* The record get_question returns when the model's reply is `reply`
\* and the join did not raise.
get_question(level, concept_name, asked_set, reply) ==
    CASE reply.kind = "question" ->
           IF QuestionText(reply.n) \in asked_set
           THEN QData(Text("err_duplicate", 0, concept_name, level), "N/A",
                      concept_name, level, "Question validation failed")
           ELSE QData(QuestionText(reply.n), "answer", concept_name, level, "")
      [] reply.kind = "bad_json" ->
           QData(Text("err_json", 0, concept_name, level), "N/A",
                 concept_name, level, "Failed to parse question JSON")
      [] reply.kind = "missing_fields" ->
           QData(Text("err_missing", 0, concept_name, level), "N/A",
                 concept_name, level, "Question validation failed")
      [] reply.kind = "quota" ->
           QData(Text("err_quota", 0, concept_name, level), "Please check your API quota.",
                 concept_name, level, "API quota exceeded during question generation")
      [] OTHER ->
           QData(Text("err_internal", 0, concept_name, level), "N/A",
                 concept_name, level, "Internal server error during question generation")

(***************************************************************************)
(* utils.py: answer evaluation.  The feedback string is represented by the *)
(* form of its first line, "Judgment: ...".                                *)
(***************************************************************************)
NoFeedback == "None"

\* evaluate_answer raises only from its last handler, which slices the
\* question to log it: a question that is not a string cannot be sliced.
evaluate_raises(question, reply) ==
    reply \in {"quota", "exception"} /\ ~IsStr(question)

evaluate_answer(reply) ==
    CASE reply = "true" -> "Correct"
      [] reply = "true_reason_not_correct" -> "CorrectNotCorrect"
      [] reply = "true_reason_incorrect" -> "CorrectIncorrect"
      [] reply = "false" -> "Incorrect"
      [] reply = "bad_json" -> "ErrorParse"
      [] reply = "missing_keys" -> "ErrorFormat"
      [] reply = "quota" -> "IncorrectApiLimit"
      [] OTHER -> "IncorrectTechnical"

\* Substring tests on the lower-cased judgment line.
HasCorrect(feedback) ==
    feedback \in {"Correct", "CorrectNotCorrect", "CorrectIncorrect", "Incorrect",
                  "IncorrectApiLimit", "IncorrectTechnical"}
HasNotCorrect(feedback) == feedback = "CorrectNotCorrect"
HasIncorrect(feedback) ==
    feedback \in {"CorrectIncorrect", "Incorrect", "IncorrectApiLimit",
                  "IncorrectTechnical"}
HasJudgmentLine(feedback) == feedback # NoFeedback

\* Mutant: the judgment is right when it holds "correct".
answer_is_correct_naive(feedback) ==
    HasJudgmentLine(feedback) /\ HasCorrect(feedback)

\* app.py /answer, lines 179-185.
answer_is_correct(feedback) ==
    /\ HasJudgmentLine(feedback)
    /\ HasCorrect(feedback)
    /\ ~HasNotCorrect(feedback)
    /\ ~HasIncorrect(feedback)

\* app.py /report, lines 309-312.
report_counts_correct(feedback) ==
    /\ HasJudgmentLine(feedback)
    /\ HasCorrect(feedback)
    /\ ~HasIncorrect(feedback)

\* Mutant: generate_report judges as /report does, without the test for
\* "not correct".
generate_report_counts_correct_lenient(feedback) ==
    /\ HasJudgmentLine(feedback)
    /\ HasCorrect(feedback)
    /\ ~HasIncorrect(feedback)

\* utils.py generate_report, lines 538-557.
generate_report_counts_correct(feedback) ==
    /\ HasJudgmentLine(feedback)
    /\ HasCorrect(feedback)
    /\ ~HasNotCorrect(feedback)
    /\ ~HasIncorrect(feedback)

(***************************************************************************)
(* utils.py: generate_report, the aggregation per skill (lines 526-557).   *)
(* AggregateSkills(history, i) is skill_performance after the loop has     *)
(* processed the first i entries.                                          *)
(***************************************************************************)
NoCounts == [correct |-> 0, incorrect |-> 0, total |-> 0]

\* Mutant: an entry without a judgment line is counted in the total only.
RECURSIVE AggregateSkills_unjudged_dropped(_, _)
AggregateSkills_unjudged_dropped(history, i) ==
    IF i = 0 THEN << >>
    ELSE LET prev == AggregateSkills_unjudged_dropped(history, i - 1)
             h == history[i]
             row == IF h.skill \in DOMAIN prev THEN prev[h.skill] ELSE NoCounts
             counted == [row EXCEPT !.total = @ + 1]
         IN [x \in DOMAIN prev \cup {h.skill} |->
               IF x # h.skill THEN prev[x]
               ELSE IF ~HasJudgmentLine(h.feedback) THEN counted
               ELSE IF generate_report_counts_correct(h.feedback)
               THEN [counted EXCEPT !.correct = @ + 1]
               ELSE [counted EXCEPT !.incorrect = @ + 1]]

RECURSIVE AggregateSkills(_, _)
AggregateSkills(history, i) ==
    IF i = 0 THEN << >>
    ELSE LET prev == AggregateSkills(history, i - 1)
             h == history[i]
             row == IF h.skill \in DOMAIN prev THEN prev[h.skill] ELSE NoCounts
             counted == [row EXCEPT !.total = @ + 1]
         IN [x \in DOMAIN prev \cup {h.skill} |->
               IF x # h.skill THEN prev[x]
               ELSE IF HasJudgmentLine(h.feedback)
               THEN IF generate_report_counts_correct(h.feedback)
                    THEN [counted EXCEPT !.correct = @ + 1]
                    ELSE [counted EXCEPT !.incorrect = @ + 1]
               ELSE [counted EXCEPT !.incorrect = @ + 1]]

skill_performance(history) == AggregateSkills(history, Len(history))

(***************************************************************************)
(* utils.py: record_response appends one record, with the session's level  *)
(* at the time of the call, and adds the question to the asked set.        *)
(***************************************************************************)
\* Mutant: the record is put at the head of the history.
record_response_at_head(session, question, feedback, skill) ==
    [session EXCEPT
        !.history = <<[question |-> question, feedback |-> feedback,
                       level |-> session.level, skill |-> skill]>> \o @,
        !.asked_set = @ \cup {question}]

record_response(session, question, feedback, skill) ==
    [session EXCEPT
        !.history = Append(@, [question |-> question, feedback |-> feedback,
                               level |-> session.level, skill |-> skill]),
        !.asked_set = @ \cup {question}]

(***************************************************************************)
(* app.py: the session store.                                              *)
(* A store value st holds the live map S, the backup map B and, for each   *)
(* id, the set sh of mutable objects (the session dict itself, its history *)
(* list, its asked set) that the live entry and the backup entry share.    *)
(* Python mutates a session in place: a write to a shared object shows in  *)
(* both maps.                                                              *)
(***************************************************************************)
Restrict(f, D) == [x \in D |-> f[x]]
Put(f, k, v) == [x \in DOMAIN f \cup {k} |-> IF x = k THEN v ELSE f[x]]

Store(S, B, sh) == [S |-> S, B |-> B, sh |-> sh]

\* Mutant: copy.copy, which shares the list and the set of its argument.
copy_shares == {"history", "asked_set"}

\* copy.deepcopy shares no mutable object with its argument.
deepcopy_shares == {}

\* Mutant: a session starts one level up.
NewSession_level2(username, topic, concepts, t) ==
    [username |-> username, topic |-> topic, history |-> <<>>, asked_set |-> {},
     level |-> 2, score |-> 0, last_activity |-> t, concepts |-> concepts,
     current_concept_idx |-> 0, final_percentage_score |-> None]

NewSession(username, topic, concepts, t) ==
    [username |-> username, topic |-> topic, history |-> <<>>, asked_set |-> {},
     level |-> 1, score |-> 0, last_activity |-> t, concepts |-> concepts,
     current_concept_idx |-> 0, final_percentage_score |-> None]

\* An in-place mutation of the live session sid to the value new.
Write(st, sid, new) ==
    LET b == IF sid \notin DOMAIN st.B THEN st.B
             ELSE IF "session" \in st.sh[sid] THEN Put(st.B, sid, new)
             ELSE Put(st.B, sid,
                      [st.B[sid] EXCEPT
                         !.history = IF "history" \in st.sh[sid]
                                     THEN new.history ELSE @,
                         !.asked_set = IF "asked_set" \in st.sh[sid]
                                       THEN new.asked_set ELSE @])
    IN Store(Put(st.S, sid, new), b, st.sh)

\* Mutant: the session of a failed /start is left in the live map.
discard_session_skipped(st, session_id) == st

\* del SESSIONS[session_id]
discard_session(st, session_id) ==
    Store(Restrict(st.S, DOMAIN st.S \ {session_id}), st.B, st.sh)

\* Mutant: /answer leaves last_activity as it is.
refresh_activity_skipped(session, t) == session

\* session["last_activity"] = datetime.now()
refresh_activity(session, t) == [session EXCEPT !.last_activity = t]

\* Mutant: a session is expired at 30 minutes already.
Expired_at_limit(session, t) == t - session.last_activity >= SessionTimeoutMinutes

Expired(session, t) == t - session.last_activity > SessionTimeoutMinutes

\* Mutant: the sweep removes live entries and leaves their backups.
cleanup_sessions_live_only(st, t) ==
    LET expired_sids == {sid \in DOMAIN st.S : Expired(st.S[sid], t)}
    IN Store(Restrict(st.S, DOMAIN st.S \ expired_sids), st.B,
             [sid \in DOMAIN st.sh |->
                 IF sid \in expired_sids THEN {} ELSE st.sh[sid]])

cleanup_sessions(st, t) ==
    LET expired_sids == {sid \in DOMAIN st.S : Expired(st.S[sid], t)}
    IN Store(Restrict(st.S, DOMAIN st.S \ expired_sids),
             Restrict(st.B, DOMAIN st.B \ expired_sids),
             [sid \in DOMAIN st.sh |->
                 IF sid \in expired_sids THEN {} ELSE st.sh[sid]])

\* Mutant: an existing backup is kept (setdefault) rather than overwritten.
backup_session_if_absent(st, session_id) ==
    IF session_id \in DOMAIN st.S /\ session_id \notin DOMAIN st.B
    THEN Store(st.S, Put(st.B, session_id, st.S[session_id]),
               [st.sh EXCEPT ![session_id] = {}])
    ELSE st

\* Mutant: the backup is the live session object itself, not a copy.
backup_session_alias(st, session_id) ==
    IF session_id \in DOMAIN st.S
    THEN Store(st.S, Put(st.B, session_id, st.S[session_id]),
               [st.sh EXCEPT ![session_id] = {"session", "history", "asked_set"}])
    ELSE st

\* Mutant: the backup call is missing.
backup_session_skipped(st, session_id) == st

backup_session(st, session_id) ==
    IF session_id \in DOMAIN st.S
    THEN Store(st.S, Put(st.B, session_id, st.S[session_id]),
               [st.sh EXCEPT ![session_id] = deepcopy_shares])
    ELSE st

\* Mutant: the backup is restored over a live session too.
recover_session_overwrite(st, session_id) ==
    IF session_id \in DOMAIN st.B
    THEN Store(Put(st.S, session_id, st.B[session_id]), st.B,
               [st.sh EXCEPT ![session_id] = {}])
    ELSE st

\* The store after recover_session(session_id); the call returns a session
\* exactly when session_id is in the resulting live map.
recover_session(st, session_id) ==
    IF session_id \in DOMAIN st.S THEN st
    ELSE IF session_id \in DOMAIN st.B
    THEN Store(Put(st.S, session_id, st.B[session_id]), st.B,
               [st.sh EXCEPT ![session_id] = deepcopy_shares])
    ELSE st

\* Mutant: the lookup refreshes last_activity of the session it finds.
get_or_recover_touching(st, session_id) ==
    LET found == recover_session(st, session_id)
    IN IF session_id \in DOMAIN found.S
       THEN Write(found, session_id,
                  [found.S[session_id] EXCEPT !.last_activity = now])
       ELSE found

\* SESSIONS.get(session_id) or recover_session(session_id)
get_or_recover(st, session_id) == recover_session(st, session_id)

(***************************************************************************)
(* app.py: the adaptive quiz engine, /answer lines 176-266.                *)
(***************************************************************************)
FallbackSkill == 0
NoText == Text("none", 0, 0, 0)
NoData == QData(NoText, "", 0, 0, "no data")

\* Mutant: the upper clamp is missing.
NextLevel_unclamped(level, is_correct) ==
    IF is_correct THEN level + 1 ELSE Max(level - 1, MinLevel)

NextLevel(level, is_correct) ==
    IF is_correct THEN Min(level + 1, MaxLevel) ELSE Max(level - 1, MinLevel)

\* Mutant: a wrong answer costs a point.
NextScore_penalty(score, is_correct) ==
    IF is_correct THEN score + 1 ELSE score - 1

NextScore(score, is_correct) == IF is_correct THEN score + 1 ELSE score

\* Mutant: the index is never advanced.
NextConceptIdx_stuck(idx, n_concepts) == idx % n_concepts

NextConceptIdx(idx, n_concepts) == (idx + 1) % n_concepts

QuizComplete(session) == Len(session.history) >= total_quiz_questions

\* The number (numerator / denominator) * 100, kept as the fraction
\* numerator / denominator in lowest terms.
RECURSIVE Gcd(_, _)
Gcd(a, b) == IF b = 0 THEN a ELSE Gcd(b, a % b)
Percentage(numerator, denominator) ==
    LET g == Gcd(numerator, denominator)
    IN <<numerator \div g, denominator \div g>>

\* The evaluation loop: the feedback_raw it ends with and the attempts made,
\* for every way the model may reply (replies in E) at each attempt.
\* Mutant: the loop allows one attempt more.
RECURSIVE EvalLoop_one_more(_, _, _)
EvalLoop_one_more(E, question, attempt) ==
    {[feedback |-> evaluate_answer(r), attempts |-> attempt] :
        r \in {x \in E : ~evaluate_raises(question, x)}}
    \cup
    (IF \E r \in E : evaluate_raises(question, r)
     THEN IF attempt = EvalAttempts + 1
          THEN {[feedback |-> NoFeedback, attempts |-> attempt]}
          ELSE EvalLoop_one_more(E, question, attempt + 1)
     ELSE {})

RECURSIVE EvalLoop(_, _, _)
EvalLoop(E, question, attempt) ==
    {[feedback |-> evaluate_answer(r), attempts |-> attempt] :
        r \in {x \in E : ~evaluate_raises(question, x)}}
    \cup
    (IF \E r \in E : evaluate_raises(question, r)
     THEN IF attempt = EvalAttempts
          THEN {[feedback |-> NoFeedback, attempts |-> attempt]}
          ELSE EvalLoop(E, question, attempt + 1)
     ELSE {})

FallbackQuestion(level) == QData(FallbackText, "N/A", FallbackSkill, level, "")

QuestionLoopEnd(last, asked_set, level, attempt) ==
    [data |-> IF last = NoData THEN FallbackQuestion(level) ELSE last,
     asked_set |-> asked_set, attempts |-> attempt]

\* The question loop: next_q_data, the asked set and the attempts made when
\* it ends, for every way the model may reply (replies in G) at each attempt.
RECURSIVE QuestionLoop(_, _, _, _, _, _)
QuestionLoop(G, level, concept_name, asked_set, attempt, last) ==
    LET Continue(next_last) ==
            IF attempt = QuestionAttempts
            THEN {QuestionLoopEnd(next_last, asked_set, level, attempt)}
            ELSE QuestionLoop(G, level, concept_name, asked_set, attempt + 1, next_last)
        OnReply(r) ==
            LET data == get_question(level, concept_name, asked_set, r)
            IN IF data.question \notin asked_set
               THEN {[data |-> data, asked_set |-> asked_set \cup {data.question},
                      attempts |-> attempt]}
               ELSE Continue(data)
    IN (IF join_may_raise(asked_set) THEN Continue(last) ELSE {})
       \cup
       (IF join_must_raise(asked_set) THEN {} ELSE UNION {OnReply(r) : r \in G})

(***************************************************************************)
(* utils.py: generate_summary_and_recommendations makes one call to the    *)
(* model; a reply without its "Summary:" and "Recommendations:" parts, and *)
(* a call that raised, are replaced by a fixed text.                       *)
(***************************************************************************)
NoSummary == "none"

generate_summary_and_recommendations(reply) ==
    CASE reply = "formatted" -> "model"
      [] reply = "unformatted" -> "fixed_format"
      [] reply = "quota" -> "fixed_quota"
      [] OTHER -> "fixed_error"

(***************************************************************************)
(* HTTP responses.  eval_attempts, question_attempts and concept_attempts  *)
(* count the calls the handler made to evaluate_answer, get_question and   *)
(* get_math_concepts.                                                      *)
(***************************************************************************)
Response(op, status, session_id) ==
    [op |-> op, status |-> status, session_id |-> session_id,
     quiz_complete |-> FALSE, next_question |-> FALSE, is_correct |-> FALSE,
     question |-> NoText, correct_answer |-> "", skill |-> FallbackSkill,
     final_score |-> None, eval_attempts |-> 0, question_attempts |-> 0,
     concept_attempts |-> 0, ai_summary |-> NoSummary]

Cur == Store(SESSIONS, SESSION_BACKUPS, shared)

Commit(st) ==
    /\ SESSIONS' = st.S
    /\ SESSION_BACKUPS' = st.B
    /\ shared' = st.sh

SweepIdle == [todo |-> {}, cur |-> NoSession, lost |-> None]

(***************************************************************************)
(* app.py: the routes.  Each action is one request handled to completion.  *)
(***************************************************************************)

\* POST /start.  session_id is the uuid4 the handler draws.
start(topic, username, session_id, concepts_reply, question_reply) ==
    /\ UNCHANGED <<now, sweep, env>>
    /\ IF topic = "" \/ username = ""
       THEN /\ resp' = Response("start", 400, NoSession)
            /\ UNCHANGED <<SESSIONS, SESSION_BACKUPS, shared>>
       ELSE
       LET concepts == get_math_concepts(topic, concepts_reply)
       IN
       IF Len(concepts) = 0
       THEN /\ resp' = [Response("start", 500, NoSession) EXCEPT
                          !.concept_attempts = 1]
            /\ UNCHANGED <<SESSIONS, SESSION_BACKUPS, shared>>
       ELSE
       LET session == NewSession(username, topic, concepts, now)
           created == Store(Put(SESSIONS, session_id, session),
                            SESSION_BACKUPS, shared)
           first_concept == concepts[session.current_concept_idx + 1]
           q_data == get_question(session.level, first_concept,
                                  session.asked_set, question_reply)
       IN
       /\ session_id \notin DOMAIN SESSIONS \cup DOMAIN SESSION_BACKUPS
       /\ session_id \notin sweep.todo \cup {sweep.cur}
       /\ IF q_data.error # ""
          THEN /\ Commit(discard_session(created, session_id))
               /\ resp' = [Response("start", 500, NoSession) EXCEPT
                             !.concept_attempts = 1,
                             !.question_attempts = 1]
          ELSE /\ Commit(Write(created, session_id,
                               [session EXCEPT !.asked_set = @ \cup {q_data.question}]))
               /\ resp' = [Response("start", 200, session_id) EXCEPT
                             !.concept_attempts = 1,
                             !.question_attempts = 1,
                             !.next_question = TRUE,
                             !.question = q_data.question,
                             !.correct_answer = q_data.correct_answer,
                             !.skill = q_data.skill]

\* POST /answer.  fields_ok: the body holds question, user_answer,
\* correct_answer and skill.  E and G: the replies the model may give to an
\* evaluation and to a question request.  run_cleanup: cleanup_sessions()
\* runs to its end within the request; otherwise its sweep is left to
\* proceed in steps beside other requests.
answer(session_id, fields_ok, question, skill, E, G, run_cleanup) ==
    /\ UNCHANGED <<now, env>>
    /\ IF session_id = NoSession
       THEN /\ resp' = Response("answer", 400, NoSession)
            /\ UNCHANGED <<SESSIONS, SESSION_BACKUPS, shared, sweep>>
       ELSE
       LET found == get_or_recover(Cur, session_id)
       IN
       IF session_id \notin DOMAIN found.S
       THEN /\ resp' = Response("answer", 400, session_id)
            /\ UNCHANGED <<SESSIONS, SESSION_BACKUPS, shared, sweep>>
       ELSE IF ~fields_ok
       THEN /\ resp' = Response("answer", 400, session_id)
            /\ Commit(found)
            /\ UNCHANGED sweep
       ELSE
       LET touched == Write(found, session_id,
                            refresh_activity(found.S[session_id], now))
           backed == backup_session(touched, session_id)
       IN
       \E ev \in EvalLoop(E, question, 1) :
         LET is_correct == answer_is_correct(ev.feedback)
             session == backed.S[session_id]
             scored == [session EXCEPT
                          !.score = NextScore(@, is_correct),
                          !.level = NextLevel(@, is_correct)]
             recorded == record_response(scored, question, ev.feedback, skill)
             st_recorded == Write(backed, session_id, recorded)
         IN
         IF QuizComplete(recorded)
         THEN LET final == Percentage(recorded.score, total_quiz_questions)
                  st_final == Write(st_recorded, session_id,
                                    [recorded EXCEPT !.final_percentage_score = final])
              IN /\ resp' = [Response("answer", 200, session_id) EXCEPT
                               !.quiz_complete = TRUE,
                               !.eval_attempts = ev.attempts]
                 /\ IF run_cleanup
                    THEN /\ Commit(cleanup_sessions(st_final, now))
                         /\ UNCHANGED sweep
                    ELSE /\ sweep = SweepIdle
                         /\ Commit(st_final)
                         /\ sweep' = [SweepIdle EXCEPT
                                        !.todo = {sid \in DOMAIN st_final.S :
                                                    Expired(st_final.S[sid], now)}]
         ELSE LET idx == NextConceptIdx(recorded.current_concept_idx,
                                        Len(recorded.concepts))
                  next_concept == recorded.concepts[idx + 1]
              IN \E q \in QuestionLoop(G, recorded.level, next_concept,
                                       recorded.asked_set, 1, NoData) :
                   /\ Commit(Write(st_recorded, session_id,
                                   [recorded EXCEPT !.current_concept_idx = idx,
                                                    !.asked_set = q.asked_set]))
                   /\ resp' = [Response("answer", 200, session_id) EXCEPT
                                 !.next_question = TRUE,
                                 !.is_correct = is_correct,
                                 !.question = q.data.question,
                                 !.correct_answer = q.data.correct_answer,
                                 !.skill = q.data.skill,
                                 !.eval_attempts = ev.attempts,
                                 !.question_attempts = q.attempts]
                   /\ UNCHANGED sweep

\* The final score /report computes when none is stored (lines 305-314);
\* entry.get('feedback', '').split raises on a feedback of None.
report_raises(session) ==
    /\ session.final_percentage_score = None
    /\ \E i \in 1..Len(session.history) : session.history[i].feedback = NoFeedback

CountCorrect(history, Counts(_)) ==
    Cardinality({i \in 1..Len(history) : Counts(history[i].feedback)})

report_final_score(session) ==
    IF session.final_percentage_score # None
    THEN session.final_percentage_score
    ELSE IF Len(session.history) > 0
    THEN Percentage(CountCorrect(session.history, report_counts_correct),
                    Len(session.history))
    ELSE Percentage(0, 1)

\* POST /report.  pdf_ok: generate_report assembled the document;
\* summary_reply: the model's reply to its request for a summary.
report(session_id, pdf_ok, summary_reply) ==
    /\ UNCHANGED <<now, sweep, env>>
    /\ IF session_id = NoSession
       THEN /\ resp' = Response("report", 400, NoSession)
            /\ UNCHANGED <<SESSIONS, SESSION_BACKUPS, shared>>
       ELSE
       LET found == get_or_recover(Cur, session_id)
       IN
       IF session_id \notin DOMAIN found.S
       THEN /\ resp' = Response("report", 400, session_id)
            /\ UNCHANGED <<SESSIONS, SESSION_BACKUPS, shared>>
       ELSE IF report_raises(found.S[session_id])
       THEN /\ resp' = Response("report", 500, session_id)
            /\ Commit(found)
       ELSE
       LET session == found.S[session_id]
           final == report_final_score(session)
       IN /\ Commit(Write(found, session_id,
                          [session EXCEPT !.final_percentage_score = final]))
          /\ resp' = IF pdf_ok
                     THEN [Response("report", 200, session_id) EXCEPT
                             !.final_score = final,
                             !.ai_summary =
                                generate_summary_and_recommendations(summary_reply)]
                     ELSE [Response("report", 500, session_id) EXCEPT
                             !.final_score = final]

\* POST /session/recover.
recover_session_route(session_id) ==
    /\ UNCHANGED <<now, sweep, env>>
    /\ IF session_id = NoSession
       THEN /\ resp' = Response("recover", 400, NoSession)
            /\ UNCHANGED <<SESSIONS, SESSION_BACKUPS, shared>>
       ELSE
       LET found == recover_session(Cur, session_id)
       IN /\ Commit(found)
          /\ resp' = IF session_id \in DOMAIN found.S
                     THEN Response("recover", 200, session_id)
                     ELSE Response("recover", 404, session_id)

\* Mutant: the heartbeat looks the session up as /answer does.
heartbeat_recovering(session_id) ==
    LET found == get_or_recover(Cur, session_id)
    IN /\ UNCHANGED <<now, sweep, env>>
       /\ IF session_id \in DOMAIN found.S
          THEN /\ Commit(Write(found, session_id,
                               [found.S[session_id] EXCEPT !.last_activity = now]))
               /\ resp' = Response("heartbeat", 200, session_id)
          ELSE /\ resp' = Response("heartbeat", 404, session_id)
               /\ UNCHANGED <<SESSIONS, SESSION_BACKUPS, shared>>

\* POST /session/heartbeat.
heartbeat(session_id) ==
    /\ UNCHANGED <<now, sweep, env>>
    /\ IF session_id \in DOMAIN SESSIONS
       THEN /\ Commit(Write(Cur, session_id,
                            [SESSIONS[session_id] EXCEPT !.last_activity = now]))
            /\ resp' = Response("heartbeat", 200, session_id)
       ELSE /\ resp' = Response("heartbeat", 404, session_id)
            /\ UNCHANGED <<SESSIONS, SESSION_BACKUPS, shared>>

\* Time passes between requests.
Tick(minutes) ==
    /\ now + minutes <= MaxNow
    /\ now' = now + minutes
    /\ UNCHANGED <<SESSIONS, SESSION_BACKUPS, shared, resp, sweep, env>>

(***************************************************************************)
(* cleanup_sessions() in steps (lines 51-55), for a server that handles    *)
(* other requests while the sweep of a completing /answer is running.      *)
(***************************************************************************)
\* del SESSIONS[sid]
sweep_del_session(sid) ==
    /\ sweep.cur = NoSession
    /\ sid \in sweep.todo
    /\ sid \in DOMAIN SESSIONS
    /\ Commit(Store(Restrict(SESSIONS, DOMAIN SESSIONS \ {sid}), SESSION_BACKUPS,
                    [shared EXCEPT ![sid] = {}]))
    /\ sweep' = [todo |-> sweep.todo \ {sid}, cur |-> sid, lost |-> SESSIONS[sid]]
    /\ UNCHANGED <<now, resp, env>>

\* if sid in SESSION_BACKUPS: del SESSION_BACKUPS[sid]
sweep_del_backup ==
    /\ sweep.cur # NoSession
    /\ Commit(Store(SESSIONS, Restrict(SESSION_BACKUPS, DOMAIN SESSION_BACKUPS \ {sweep.cur}),
                    [shared EXCEPT ![sweep.cur] = {}]))
    /\ sweep' = [sweep EXCEPT !.cur = NoSession, !.lost = None]
    /\ UNCHANGED <<now, resp, env>>

(***************************************************************************)
(* The environment: what the clients send and what the model replies.      *)
(* In every environment but the one that varies it, a client submits the   *)
(* question it was last given under the skill of the current concept, on a *)
(* known topic; the model judges each answer, always writes a question it  *)
(* has not written before, and its concept list is unusable, so that the   *)
(* static table is used.                                                   *)
(* "quiz": one client takes the quiz to its end and beyond, and asks for    *)
(* its report once the quiz is complete; the model judges each answer      *)
(* right or wrong.                                                         *)
(* "crowd": several clients, who also ask for recoveries and heartbeats;   *)
(* the model judges every answer right.                                    *)
(* "judge": every reply and failure of the model to an evaluation, for a   *)
(* question that is a string or is not; reports.                           *)
(* "author": every reply and failure of the model to a question request,   *)
(* for answers judged right or wrong, under the static table or a list of  *)
(* one concept.                                                            *)
(* "client": a client that submits any text, or a value that is not a      *)
(* string, under any skill, and requests without their fields or for       *)
(* unknown sessions; reports whose document cannot be assembled or whose   *)
(* summary the model fails to write.                                       *)
(* "topics": any topic, a missing topic or username, and every concept     *)
(* list of the model.                                                      *)
(* The last four hold a few answers per run.                               *)
(***************************************************************************)
Environments == {"quiz", "crowd", "judge", "author", "client", "topics"}
ShallowEnvironments == {"judge", "author", "client", "topics"}

AllEvalReplies ==
    {"true", "true_reason_not_correct", "true_reason_incorrect", "false",
     "bad_json", "missing_keys", "quota", "exception"}

QuestionReply(n) == [kind |-> "question", n |-> n]
FailureReply(kind) == [kind |-> kind, n |-> 0]
ListReply(n) == [kind |-> "list", n |-> n]

AllQuestionReplies ==
    {QuestionReply(1), QuestionReply(2), FailureReply("bad_json"),
     FailureReply("missing_fields"), FailureReply("quota"),
     FailureReply("exception")}

NQuestionsAsked(asked_set) == Cardinality({t \in asked_set : t.kind = "question"})

EvalReplies ==
    CASE env = "judge" -> AllEvalReplies
      [] env \in {"quiz", "author"} -> {"true", "false"}
      [] OTHER -> {"true"}

QuestionReplies(asked_set) ==
    IF env = "author"
    THEN AllQuestionReplies
    ELSE {QuestionReply(NQuestionsAsked(asked_set) + 1)}

LastQuestion(session) == QuestionText(NQuestionsAsked(session.asked_set))

ClientQuestions(session) ==
    CASE env = "client" -> {QuestionText(1), QuestionText(2), FallbackText, NumberValue}
      [] env = "judge" -> {LastQuestion(session), NumberValue}
      [] OTHER -> {LastQuestion(session)}

ClientSkills(session) ==
    IF env = "client"
    THEN {1, 2}
    ELSE {session.concepts[session.current_concept_idx + 1]}

ConceptReplies ==
    IF env = "topics"
    THEN {FailureReply("unusable")} \cup {ListReply(n) : n \in 0..MaxConcepts}
    ELSE IF env = "author"
    THEN {FailureReply("unusable"), ListReply(1)}
    ELSE {FailureReply("unusable")}

AllSummaryReplies == {"formatted", "unformatted", "quota", "exception"}
SummaryReplies == IF env = "client" THEN AllSummaryReplies ELSE {"formatted"}

Topics == IF env = "topics" THEN {"algebra", "knots", ""} ELSE {"algebra"}
Usernames == IF env = "topics" THEN {"Ada", ""} ELSE {"Ada"}
TickMinutes == {SessionTimeoutMinutes, SessionTimeoutMinutes + 1}

\* The session an /answer for session_id would find (live, or its backup).
Known(session_id) == session_id \in DOMAIN get_or_recover(Cur, session_id).S
Lookup(session_id) == get_or_recover(Cur, session_id).S[session_id]

HistoryLen(session_id) == IF Known(session_id) THEN Len(Lookup(session_id).history) ELSE 0

RECURSIVE SumHistory(_)
SumHistory(ids) ==
    IF ids = {} THEN 0
    ELSE LET sid == CHOOSE x \in ids : TRUE
         IN HistoryLen(sid) + SumHistory(ids \ {sid})

\* The answers a run may hold in all.
MaxAnswers ==
    IF env \in ShallowEnvironments THEN MaxWideHistory
    ELSE IF env = "crowd" THEN MaxCrowdHistory
    ELSE MaxTotalHistory

\* The sessions a run may hold at a time.
MaxClients == IF env \in {"crowd", "topics"} THEN MaxSessions ELSE 1

\* uuid4() draws an id never used before; ids are opaque, so the least
\* unused one stands for it.
InUse == DOMAIN SESSIONS \cup DOMAIN SESSION_BACKUPS \cup sweep.todo \cup {sweep.cur}
FreshId(session_id) ==
    /\ session_id \notin InUse
    /\ \A other \in SessionIds : other < session_id => other \in InUse

(***************************************************************************)
(* Requests.                                                               *)
(***************************************************************************)
StartRequest ==
    /\ Cardinality(InUse \ {NoSession}) < MaxClients
    /\ \E topic \in Topics, username \in Usernames, session_id \in SessionIds,
          concepts_reply \in ConceptReplies, question_reply \in QuestionReplies({}) :
         /\ FreshId(session_id)
         /\ start(topic, username, session_id, concepts_reply, question_reply)

AnswerArgs(session_id, run_cleanup) ==
    /\ Known(session_id)
    /\ SumHistory(SessionIds) < MaxAnswers
    /\ \E question \in ClientQuestions(Lookup(session_id)),
          skill \in ClientSkills(Lookup(session_id)) :
         answer(session_id, TRUE, question, skill, EvalReplies,
                QuestionReplies(Lookup(session_id).asked_set \cup {question}), run_cleanup)

AnswerRequest == \E session_id \in SessionIds : AnswerArgs(session_id, TRUE)

\* An /answer without a session id, for a session that is neither live nor
\* backed up, or without its fields.
BadAnswerArgs(session_id, fields_ok) ==
    /\ Known(session_id) => ~fields_ok
    /\ answer(session_id, fields_ok, NoText, FallbackSkill, {}, {}, TRUE)

BadAnswerRequest ==
    /\ env = "client"
    /\ \E session_id \in SessionIds \cup {NoSession}, fields_ok \in BOOLEAN :
         BadAnswerArgs(session_id, fields_ok)

\* The client of a quiz asks for its report when the quiz is complete.
ReportRequest ==
    /\ env \in {"quiz", "judge", "client"}
    /\ \E session_id \in SessionIds \cup {NoSession}, pdf_ok \in BOOLEAN,
          summary_reply \in SummaryReplies :
         /\ (session_id = NoSession \/ ~pdf_ok) => env = "client"
         /\ env = "quiz" => Known(session_id) /\ QuizComplete(Lookup(session_id))
         /\ summary_reply # "formatted" => pdf_ok /\ Known(session_id)
         /\ report(session_id, pdf_ok, summary_reply)

RecoverRequest ==
    /\ env \in {"crowd", "client"}
    /\ \E session_id \in SessionIds \cup {NoSession} :
         /\ session_id = NoSession => env = "client"
         /\ recover_session_route(session_id)

HeartbeatRequest ==
    /\ env \in {"crowd", "client"}
    /\ \E session_id \in SessionIds : heartbeat(session_id)

\* Time matters to the expiry sweep, which only a completed quiz runs.
TimePasses ==
    /\ env \notin ShallowEnvironments
    /\ \E minutes \in TickMinutes : Tick(minutes)

Init ==
    /\ SESSIONS = << >>
    /\ SESSION_BACKUPS = << >>
    /\ shared = [sid \in SessionIds |-> {}]
    /\ now = 0
    /\ resp = Response("none", 0, NoSession)
    /\ sweep = SweepIdle
    /\ env \in Environments

Next ==
    \/ StartRequest
    \/ AnswerRequest
    \/ BadAnswerRequest
    \/ ReportRequest
    \/ RecoverRequest
    \/ HeartbeatRequest
    \/ TimePasses

\* Requests handled one at a time.
Spec == Init /\ [][Next]_vars

(***************************************************************************)
(* A server that handles requests while a sweep is running (Flask's        *)
(* development server is threaded): the sweep of a completing /answer      *)
(* proceeds in steps, and whole requests are handled between its steps.    *)
(***************************************************************************)
ThreadedAnswerRequest == \E session_id \in SessionIds : AnswerArgs(session_id, FALSE)

\* Such a request arrives while a sweep is running.
ThreadedBadAnswerRequest ==
    /\ sweep # SweepIdle
    /\ \E session_id \in SessionIds, fields_ok \in BOOLEAN :
         BadAnswerArgs(session_id, fields_ok)

SweepSession == \E sid \in SessionIds : sweep_del_session(sid)

SweepBackup == sweep_del_backup

InitThreaded == Init /\ env = "crowd"

NextThreaded ==
    \/ StartRequest
    \/ ThreadedAnswerRequest
    \/ ThreadedBadAnswerRequest
    \/ RecoverRequest
    \/ HeartbeatRequest
    \/ TimePasses
    \/ SweepSession
    \/ SweepBackup

SpecThreaded == InitThreaded /\ [][NextThreaded]_vars

(***************************************************************************)
(* Claims.                                                                 *)
(***************************************************************************)
Live == DOMAIN SESSIONS
Backed == DOMAIN SESSION_BACKUPS

Last(seq) == seq[Len(seq)]

\* A step in which /answer scored a submission for sid and recorded it.
Scored(sid) ==
    /\ sid \in Live
    /\ sid \in DOMAIN SESSIONS'
    /\ Len(SESSIONS'[sid].history) = Len(SESSIONS[sid].history) + 1

\* C1: in every reachable state the level of every session, live or backed
\* up, is an integer from 1 to 5.
C1_LevelInRange ==
    /\ \A sid \in Live : SESSIONS[sid].level \in MinLevel..MaxLevel
    /\ \A sid \in Backed : SESSION_BACKUPS[sid].level \in MinLevel..MaxLevel

\* A right answer given at level 5 has left the level at 5, and a wrong
\* answer given at level 1 has left it at 1.
C1_Witness ==
    \E sid \in Live :
        LET h == SESSIONS[sid].history
        IN \E i, j \in 2..Len(h) :
              /\ h[i - 1].level = MaxLevel /\ h[i].level = MaxLevel
              /\ answer_is_correct(h[i].feedback)
              /\ h[j - 1].level = MinLevel /\ h[j].level = MinLevel
              /\ ~answer_is_correct(h[j].feedback)

\* C2: every scored submission moves score and level by one step: judged
\* right, score + 1 and level min(level + 1, 5); judged wrong, the same score
\* and level max(level - 1, 1); the response reports that judgment; and no
\* step at all lowers a score or moves a level by more than one.
C2_OneStep ==
    [][\A sid \in Live \cap DOMAIN SESSIONS' :
          LET old == SESSIONS[sid]
              new == SESSIONS'[sid]
          IN /\ new.score >= old.score
             /\ new.level - old.level \in {-1, 0, 1}
             /\ Scored(sid) =>
                  LET right == answer_is_correct(Last(new.history).feedback)
                  IN /\ right => /\ new.score = old.score + 1
                                 /\ new.level = Min(old.level + 1, 5)
                     /\ ~right => /\ new.score = old.score
                                  /\ new.level = Max(old.level - 1, 1)
                     /\ resp'.op = "answer" /\ resp'.status = 200
                     /\ resp'.next_question => resp'.is_correct = right
    ]_vars

\* A session holds a right and a wrong answer, and has been at levels 1
\* and 5.
C2_Witness ==
    \E sid \in Live :
        LET h == SESSIONS[sid].history
        IN /\ resp.op = "answer" /\ resp.status = 200 /\ resp.session_id = sid
           /\ \E i, j \in 1..Len(h) :
                 /\ answer_is_correct(h[i].feedback) /\ h[i].level = MaxLevel
                 /\ ~answer_is_correct(h[j].feedback) /\ h[j].level = MinLevel

\* C3: with N the number of scored submissions that did not complete the
\* quiz (every record up to the ninth), current_concept_idx = N mod L, where
\* L is the length of the concept list; a completing submission leaves the
\* index alone; and 0 <= current_concept_idx < L.
C3_ConceptIndex ==
    \A sid \in Live :
        LET s == SESSIONS[sid]
            L == Len(s.concepts)
            N == Min(Len(s.history), total_quiz_questions - 1)
        IN /\ s.current_concept_idx = N % L
           /\ 0 <= s.current_concept_idx /\ s.current_concept_idx < L

\* A completed quiz whose index has wrapped and was not advanced by the
\* completing submission.
C3_Witness ==
    \E sid \in Live :
        LET s == SESSIONS[sid]
        IN /\ QuizComplete(s)
           /\ Len(s.concepts) < total_quiz_questions - 1
           /\ s.current_concept_idx = (total_quiz_questions - 1) % Len(s.concepts)
           /\ resp.op = "answer" /\ resp.quiz_complete

\* C4: an /answer response is {quiz_complete: true} exactly when, with that
\* submission's record appended, the history holds 10 records; it then
\* carries no next question, and every other successful /answer response
\* carries a next question.
C4_CompleteIffTen ==
    \A sid \in Live :
        (resp.op = "answer" /\ resp.status = 200 /\ resp.session_id = sid) =>
            /\ resp.quiz_complete <=>
                  Len(SESSIONS[sid].history) = total_quiz_questions
            /\ resp.quiz_complete => ~resp.next_question /\ resp.question = NoText
            /\ ~resp.quiz_complete => resp.next_question

\* C5: Complete is terminal: once the history of a session holds 10
\* records no step appends to it or changes its score or level, so that no
\* history is longer than 10 and no score is above 10.
C5_CompleteIsTerminal ==
    [][\A sid \in Live \cap DOMAIN SESSIONS' :
          LET old == SESSIONS[sid]
              new == SESSIONS'[sid]
          IN /\ Len(old.history) = total_quiz_questions =>
                  /\ new.history = old.history
                  /\ new.score = old.score
                  /\ new.level = old.level
             /\ Len(new.history) <= total_quiz_questions
             /\ new.score <= total_quiz_questions
    ]_vars

\* C6: when an /answer stores final_percentage_score, exactly 10 questions
\* have been answered, the score is one of 0..10, and the value stored is
\* (score / 10) * 100.
C6_FinalScoreOfTen ==
    [][\A sid \in DOMAIN SESSIONS' :
          LET new == SESSIONS'[sid]
          IN (resp'.op = "answer" /\ resp'.session_id = sid /\ resp'.quiz_complete
                /\ (sid \in Live => SESSIONS[sid] # new)) =>
                /\ Len(new.history) = total_quiz_questions
                /\ new.score \in 0..total_quiz_questions
                /\ new.final_percentage_score =
                      Percentage(new.score, total_quiz_questions)
    ]_vars

IsPrefix(p, s) == Len(p) <= Len(s) /\ SubSeq(s, 1, Len(p)) = p

\* A step of /session/recover that restores sid from its backup.
Restored(sid) ==
    /\ sid \notin Live
    /\ sid \in Backed
    /\ sid \in DOMAIN SESSIONS'
    /\ resp'.op = "recover"

C8_RecoverFrame ==
    [][\A sid \in SessionIds :
          recover_session_route(sid) =>
              /\ SESSION_BACKUPS' = SESSION_BACKUPS
              /\ sid \in Live => SESSIONS' = SESSIONS /\ resp'.status = 200
              /\ (sid \notin Live /\ sid \in Backed) =>
                    /\ SESSIONS' = Put(SESSIONS, sid, SESSION_BACKUPS[sid])
                    /\ resp'.status = 200
              /\ (sid \notin Live /\ sid \notin Backed) =>
                    SESSIONS' = SESSIONS /\ resp'.status = 404
              /\ LET once == Store(SESSIONS', SESSION_BACKUPS', shared')
                     twice == recover_session(once, sid)
                 IN twice.S = once.S /\ twice.B = once.B
    ]_vars

\* /session/recover has answered for a session restored from its backup,
\* while another session is live and differs from its own backup.
C8_Witness ==
    /\ resp.op = "recover" /\ resp.status = 200
    /\ sweep.cur = resp.session_id
    /\ resp.session_id \in Live \cap Backed
    /\ SESSIONS[resp.session_id] = SESSION_BACKUPS[resp.session_id]
    /\ \E other \in Live \cap Backed : SESSIONS[other] # SESSION_BACKUPS[other]

\* The session /answer finds for sid: the live one, or the backup restored.
Found(sid) == recover_session(Cur, sid).S[sid]

\* C9: a backup shares nothing with the live session: a backup entry is
\* written only by an /answer for its session, with the value the session
\* had when backup_session was called, and no mutation of the live session,
\* backed up or restored, changes it.
C9_BackupIndependent ==
    [][\A sid \in DOMAIN SESSION_BACKUPS' :
          (sid \notin Backed \/ SESSION_BACKUPS'[sid] # SESSION_BACKUPS[sid]) =>
              /\ resp'.op = "answer" /\ resp'.session_id = sid
              /\ sid \in Live \cup Backed
              /\ SESSION_BACKUPS'[sid] = [Found(sid) EXCEPT !.last_activity = now]
    ]_vars

\* A session restored from its backup has been mutated by a heartbeat, and
\* another has been mutated by the /answer that backed it up.
C9_Witness ==
    /\ resp.op = "heartbeat" /\ resp.status = 200
    /\ sweep.cur = resp.session_id
    /\ resp.session_id \in Live \cap Backed
    /\ SESSIONS[resp.session_id].last_activity
          # SESSION_BACKUPS[resp.session_id].last_activity
    /\ \E other \in Live \cap Backed :
          /\ SESSIONS[other].history # SESSION_BACKUPS[other].history
          /\ SESSIONS[other].score # SESSION_BACKUPS[other].score

C11_CleanupExact ==
    [][\A asid \in Live :
          (Scored(asid) /\ resp'.quiz_complete) =>
              /\ \A sid \in (Live \cup Backed) \ {asid} :
                    IF sid \in Live /\ now - SESSIONS[sid].last_activity > 30
                    THEN sid \notin DOMAIN SESSIONS'
                         /\ sid \notin DOMAIN SESSION_BACKUPS'
                    ELSE /\ sid \in Live =>
                               /\ sid \in DOMAIN SESSIONS'
                               /\ SESSIONS'[sid] = SESSIONS[sid]
                         /\ sid \in Backed <=> sid \in DOMAIN SESSION_BACKUPS'
                         /\ sid \in Backed =>
                               SESSION_BACKUPS'[sid] = SESSION_BACKUPS[sid]
              /\ \A sid \in DOMAIN SESSIONS' :
                    now - SESSIONS'[sid].last_activity <= 30
              /\ DOMAIN SESSIONS' \subseteq Live
    ]_vars

\* A quiz has completed and its sweep has removed the session started
\* before it, backup included.
C11_Witness ==
    /\ resp.op = "answer" /\ resp.quiz_complete
    /\ resp.session_id = 2
    /\ Live = {2}
    /\ Backed = {2}
    /\ now - SESSIONS[2].last_activity = 0
    /\ now > SessionTimeoutMinutes

\* C12: a heartbeat for an id with no live entry answers inactive and
\* changes neither map, whether or not a backup of that id exists; a
\* heartbeat for a live id answers active and changes nothing but that
\* session's last_activity.
C12_HeartbeatFrame ==
    [][\A sid \in SessionIds :
          heartbeat(sid) =>
              /\ SESSION_BACKUPS' = SESSION_BACKUPS
              /\ resp'.op = "heartbeat"
              /\ sid \notin Live =>
                    /\ resp'.status = 404
                    /\ SESSIONS' = SESSIONS
              /\ sid \in Live =>
                    /\ resp'.status = 200
                    /\ SESSIONS' = [SESSIONS EXCEPT ![sid].last_activity = now]
    ]_vars

\* A heartbeat has been answered inactive for a session whose backup
\* exists, and the session was not restored.
C12_Witness ==
    /\ resp.op = "heartbeat" /\ resp.status = 404
    /\ resp.session_id \in Backed \ Live
    /\ sweep.cur = resp.session_id

\* The asked set that the question loop of an /answer for sid tests
\* against: the session's set with the submitted question added.
AskedWhenChosen(sid) ==
    SESSIONS[sid].asked_set \cup {Last(SESSIONS'[sid].history).question}

\* C13: the question returned as the next question by /answer, or as the
\* first question by /start, is never a text that was in the session's
\* asked set when the question was chosen.
C13_NeverAsksAgain ==
    [][/\ \A sid \in Live :
             (Scored(sid) /\ resp'.next_question) =>
                 resp'.question \notin AskedWhenChosen(sid)
       /\ \A sid \in DOMAIN SESSIONS' \ Live :
             (resp'.op = "start" /\ resp'.status = 200) =>
                 SESSIONS'[sid].asked_set = {resp'.question}
    ]_vars

\* C14: when the three attempts of /answer to generate a question end
\* with none accepted (nothing was added to the asked set), the response
\* carries the fixed fallback question with the skill "Fallback Question"
\* and the correct answer "N/A".
C14_FallbackWhenExhausted ==
    [][\A sid \in Live :
          (Scored(sid) /\ resp'.next_question
             /\ SESSIONS'[sid].asked_set = AskedWhenChosen(sid)) =>
                 /\ resp'.question_attempts = QuestionAttempts
                 /\ resp'.question = FallbackText
                 /\ resp'.skill = FallbackSkill
                 /\ resp'.correct_answer = "N/A"
    ]_vars

\* What the history holds as feedback when the evaluation failed: the four
\* failure verdicts of evaluate_answer, and None when all attempts raised.
FailureVerdicts ==
    {"ErrorParse", "ErrorFormat", "IncorrectApiLimit", "IncorrectTechnical",
     NoFeedback}

\* C15: when the evaluation of an answer fails the turn is still resolved:
\* exactly one record is appended, the score is unchanged, the level is
\* max(level - 1, 1), and a response is returned that does not call the
\* answer right.
C15_FailedEvaluationResolved ==
    [][\A sid \in Live \cap DOMAIN SESSIONS' :
          LET old == SESSIONS[sid]
              new == SESSIONS'[sid]
          IN (Len(new.history) > Len(old.history)
                /\ Last(new.history).feedback \in FailureVerdicts) =>
                 /\ new.history = Append(old.history, Last(new.history))
                 /\ new.score = old.score
                 /\ new.level = Max(old.level - 1, 1)
                 /\ resp'.op = "answer" /\ resp'.status = 200
                 /\ resp'.session_id = sid
                 /\ resp'.next_question \/ resp'.quiz_complete
                 /\ ~resp'.is_correct
    ]_vars

\* After a right answer, an answer whose three evaluations all raised has
\* been recorded without feedback and has lowered the level.
C15_Witness ==
    \E sid \in Live :
        LET h == SESSIONS[sid].history
        IN /\ Len(h) = 2
           /\ h[1].feedback = "Correct" /\ h[1].level = 2
           /\ h[2].feedback = NoFeedback /\ h[2].level = 1
           /\ SESSIONS[sid].score = 1
           /\ resp.op = "answer" /\ resp.status = 200
           /\ resp.eval_attempts = EvalAttempts

\* C16: a successful /start adds exactly one session, under an id that was
\* in neither map, with level 1, score 0, an empty history and concept
\* index 0; its first question was asked for the first concept, and its
\* asked set holds exactly that question; no other session and no backup
\* changes.
C16_StartCreatesOne ==
    [][(resp'.op = "start" /\ resp'.status = 200 /\ SESSIONS' # SESSIONS) =>
          LET sid == resp'.session_id
              new == SESSIONS'[sid]
          IN /\ sid \notin Live \cup Backed
             /\ DOMAIN SESSIONS' = Live \cup {sid}
             /\ \A other \in Live : SESSIONS'[other] = SESSIONS[other]
             /\ SESSION_BACKUPS' = SESSION_BACKUPS
             /\ new.level = 1
             /\ new.score = 0
             /\ new.history = << >>
             /\ new.current_concept_idx = 0
             /\ new.final_percentage_score = None
             /\ Len(new.concepts) > 0
             /\ resp'.next_question
             /\ resp'.skill = new.concepts[1]
             /\ resp'.question.kind = "question"
             /\ new.asked_set = {resp'.question}
    ]_vars

\* A session has been started beside one that has answers and a backup.
C16_Witness ==
    /\ resp.op = "start" /\ resp.status = 200
    /\ resp.session_id \in Live \ Backed
    /\ SESSIONS[resp.session_id].asked_set = {resp.question}
    /\ \E other \in Live \cap Backed : SESSIONS[other].history # << >>

\* C17: when the model's concept list is unusable or empty, concept listing
\* gives the static table of the topic, so that no session holds an empty
\* concept list and /start, given a topic and a username, never fails for
\* lack of concepts (where question generation does not fail, /start never
\* answers 500).
C17_ConceptsNeverEmpty ==
    [][/\ \A sid \in DOMAIN SESSIONS' : Len(SESSIONS'[sid].concepts) > 0
       /\ (resp'.op = "start" /\ env # "author") => resp'.status # 500
    ]_vars

\* C18: the history of a live session is append-only: every step leaves
\* it as it was or appends one record at its end, and only a scored
\* /answer appends.
C18_HistoryAppendOnly ==
    [][\A sid \in Live \cap DOMAIN SESSIONS' :
          LET h == SESSIONS[sid].history
              g == SESSIONS'[sid].history
          IN /\ IsPrefix(h, g)
             /\ Len(g) - Len(h) \in {0, 1}
             /\ Len(g) > Len(h) =>
                   /\ resp'.op = "answer" /\ resp'.status = 200
                   /\ resp'.session_id = sid
    ]_vars

\* A report has been produced for a completed quiz, whose ten records are
\* the nine its backup holds and one more.
C18_Witness ==
    /\ resp.op = "report" /\ resp.status = 200
    /\ resp.session_id \in Live \cap Backed
    /\ LET h == SESSIONS[resp.session_id].history
           b == SESSION_BACKUPS[resp.session_id].history
       IN /\ Len(h) = total_quiz_questions
          /\ b = SubSeq(h, 1, Len(h) - 1)
          /\ \A i \in 1..Len(h) : h[i].question = QuestionText(i)

\* C19: the level a history record stores is the level at which its
\* question was asked, the session's level before the answer was scored
\* (level 1 for the first question), not the level after scoring.
C19_RecordsLevelWhenAsked ==
    [][\A sid \in Live :
          Scored(sid) =>
              /\ Last(SESSIONS'[sid].history).level = SESSIONS[sid].level
              /\ Len(SESSIONS[sid].history) = 0 =>
                    Last(SESSIONS'[sid].history).level = 1
    ]_vars

RECURSIVE SumTotals(_, _)
SumTotals(performance, skills) ==
    IF skills = {} THEN 0
    ELSE LET skill == CHOOSE x \in skills : TRUE
         IN performance[skill].total + SumTotals(performance, skills \ {skill})

\* C20: in the report's aggregation of any history, every skill has
\* correct + incorrect = total, the totals of the skills add up to the
\* number of entries, and an entry is counted correct only when its
\* judgment says so: an entry with no judgment line, a missing feedback
\* included, is counted incorrect.
C20_AggregationAddsUp ==
    \A sid \in Live :
        LET h == SESSIONS[sid].history
            p == skill_performance(h)
        IN /\ DOMAIN p = {h[i].skill : i \in 1..Len(h)}
           /\ SumTotals(p, DOMAIN p) = Len(h)
           /\ \A skill \in DOMAIN p :
                 LET of_skill == {i \in 1..Len(h) : h[i].skill = skill}
                 IN /\ p[skill].correct + p[skill].incorrect = p[skill].total
                    /\ p[skill].total = Cardinality(of_skill)
                    /\ p[skill].correct =
                          Cardinality({i \in of_skill : h[i].feedback = "Correct"})

\* A history holds a right answer under one skill and an answer without
\* feedback under another, which the aggregation counts incorrect.
C20_Witness ==
    \E sid \in Live :
        LET h == SESSIONS[sid].history
            p == skill_performance(h)
        IN /\ Len(h) = 2
           /\ h[1].feedback = "Correct" /\ h[2].feedback = NoFeedback
           /\ h[1].skill # h[2].skill
           /\ p[h[1].skill] = [correct |-> 1, incorrect |-> 0, total |-> 1]
           /\ p[h[2].skill] = [correct |-> 0, incorrect |-> 1, total |-> 1]

\* C21: an /answer for a session id with neither a live entry nor a backup,
\* or without its required fields, is answered 400; it leaves every live
\* session as it was (history, score, level, concept index, asked set and
\* last_activity included) and writes no backup.  The only entry it can
\* add is the live entry of the session it names, restored as its backup
\* holds it, when the request lacks fields and the session is backed up but
\* not live.
C21_RejectedAnswerFrame ==
    [][\A session_id \in SessionIds \cup {NoSession}, fields_ok \in BOOLEAN :
          (resp'.op = "answer" /\ BadAnswerArgs(session_id, fields_ok)) =>
              /\ resp'.status \in 400..499
              /\ SESSION_BACKUPS' = SESSION_BACKUPS
              /\ \A sid \in Live :
                    sid \in DOMAIN SESSIONS' /\ SESSIONS'[sid] = SESSIONS[sid]
              /\ \A sid \in DOMAIN SESSIONS' \ Live :
                    /\ sid = session_id /\ sid \in Backed /\ ~fields_ok
                    /\ SESSIONS'[sid] = SESSION_BACKUPS[sid]
              /\ session_id \notin Live \cup Backed => SESSIONS' = SESSIONS
    ]_vars

\* A request without its fields has been rejected for a session whose live
\* entry a running sweep had removed, while another session is live with
\* answers of its own.
C21_Witness ==
    /\ resp.op = "answer" /\ resp.status = 400
    /\ sweep.cur = resp.session_id
    /\ resp.session_id \in Live \cap Backed
    /\ SESSIONS[resp.session_id] = SESSION_BACKUPS[resp.session_id]
    /\ \E other \in Live \ {resp.session_id} : SESSIONS[other].history # << >>

\* The outcomes of the two loops of an /answer that the client of sid may
\* send next, whatever the model replies at each attempt.
EvalOutcomes(sid) ==
    UNION {EvalLoop(EvalReplies, question, 1) :
             question \in ClientQuestions(Lookup(sid))}

QuestionOutcomes(sid) ==
    LET s == Lookup(sid)
    IN UNION {QuestionLoop(QuestionReplies(s.asked_set \cup {question}), level,
                           s.concepts[NextConceptIdx(s.current_concept_idx,
                                                     Len(s.concepts)) + 1],
                           s.asked_set \cup {question}, 1, NoData) :
                question \in ClientQuestions(s),
                level \in {NextLevel(s.level, is_correct) : is_correct \in BOOLEAN}}

\* C22: every /answer ends with a response after at most 3 calls to
\* evaluate_answer and at most 3 calls to get_question, whatever the model
\* returns or raises: each loop has an outcome for every series of replies,
\* an evaluation is repeated only after a call that raised, and a
\* completing /answer asks for no question.  No other operation repeats a
\* call: /start makes at most one call for concepts and one for a question,
\* and a failure of that one call decides the response; /report makes one
\* call for the summary and takes a fixed text when it fails; recover and
\* heartbeat make none.
C22_BoundedAttempts ==
    /\ [](\A sid \in SessionIds :
             Known(sid) =>
                 LET evaluations == EvalOutcomes(sid)
                     questions == QuestionOutcomes(sid)
                 IN /\ evaluations # {}
                    /\ questions # {}
                    /\ \A ev \in evaluations : ev.attempts \in 1..3
                    /\ \A q \in questions : q.attempts \in 1..3)
    /\ [][/\ \A sid \in Live :
                Scored(sid) =>
                    /\ resp'.op = "answer" /\ resp'.status = 200
                    /\ resp'.eval_attempts \in 1..3
                    /\ resp'.eval_attempts > 1 =>
                          ~IsStr(Last(SESSIONS'[sid].history).question)
                    /\ Last(SESSIONS'[sid].history).feedback = NoFeedback =>
                          resp'.eval_attempts = 3
                    /\ resp'.next_question => resp'.question_attempts \in 1..3
                    /\ resp'.quiz_complete => resp'.question_attempts = 0
                    /\ resp'.concept_attempts = 0
          /\ resp'.op = "start" =>
                /\ resp'.eval_attempts = 0
                /\ resp'.concept_attempts \in {0, 1}
                /\ resp'.question_attempts \in {0, 1}
          /\ \A topic \in Topics, username \in Usernames, session_id \in SessionIds,
                concepts_reply \in ConceptReplies,
                question_reply \in QuestionReplies({}) :
                (/\ resp'.op = "start"
                 /\ start(topic, username, session_id, concepts_reply, question_reply)
                 /\ topic # "" /\ username # "") =>
                    /\ (concepts_reply.kind # "list" /\ resp'.status = 200) =>
                          SESSIONS'[session_id].concepts = fallback_concepts(topic)
                    /\ (question_reply.kind # "question"
                          /\ Len(get_math_concepts(topic, concepts_reply)) > 0) =>
                          /\ resp'.status = 500
                          /\ resp'.question_attempts = 1
          /\ \A session_id \in SessionIds, summary_reply \in SummaryReplies :
                (/\ resp'.op = "report" /\ resp'.status = 200
                 /\ report(session_id, TRUE, summary_reply)) =>
                    /\ resp'.ai_summary =
                          generate_summary_and_recommendations(summary_reply)
                    /\ summary_reply # "formatted" => resp'.ai_summary # "model"
          /\ resp'.op \in {"report", "recover", "heartbeat"} =>
                /\ resp'.eval_attempts = 0
                /\ resp'.question_attempts = 0
                /\ resp'.concept_attempts = 0
       ]_vars

\* An /answer has been served after three question requests, none of
\* which gave a text that was not in the asked set.
C22_Witness ==
    /\ resp.op = "answer" /\ resp.status = 200 /\ resp.next_question
    /\ resp.question_attempts = QuestionAttempts
    /\ resp.eval_attempts \in 1..EvalAttempts
    /\ resp.session_id \in Live
    /\ resp.question \in SESSIONS[resp.session_id].asked_set
    /\ resp.question.kind # "question"

\* C23: when requests are handled one at a time, every id in the backup
\* map is in the live map in every reachable state: no sequence of /start,
\* /answer, /report, heartbeat, recover and cleanup reaches the condition
\* "live entry missing, backup present" that recover_session handles, so
\* that no request ever adds a live entry from a backup.
C23_BackupImpliesLive ==
    /\ Backed \subseteq Live
    /\ \A sid \in SessionIds : recover_session(Cur, sid) = Cur

\* A recovery has been asked for a session that the sweep of another
\* session's completing /answer had removed, and has found nothing.
C23_Witness ==
    /\ resp.op = "recover" /\ resp.status = 404
    /\ resp.session_id = 1
    /\ Live = {2} /\ Backed = {2}
    /\ QuizComplete(SESSIONS[2])
    /\ now - SESSIONS[2].last_activity <= SessionTimeoutMinutes

\* C24: the backup of a session lags the live session by one submission:
\* a session that has been started and not yet answered has no backup, and
\* once a submission has been scored the backup's history is the live
\* history without its last record, and the backup's score, level and
\* concept index are those from before that record was scored (the index
\* is not advanced by a submission after which the quiz is complete).
C24_BackupLagsByOne ==
    \A sid \in Live :
        LET s == SESSIONS[sid]
        IN IF s.history = << >>
           THEN sid \notin Backed
           ELSE /\ sid \in Backed
                /\ LET b == SESSION_BACKUPS[sid]
                       right == answer_is_correct(Last(s.history).feedback)
                   IN /\ Len(b.history) = Len(s.history) - 1
                      /\ b.history = SubSeq(s.history, 1, Len(s.history) - 1)
                      /\ s.score = b.score + (IF right THEN 1 ELSE 0)
                      /\ s.level = IF right THEN Min(b.level + 1, 5)
                                   ELSE Max(b.level - 1, 1)
                      /\ s.current_concept_idx =
                            IF Len(s.history) >= total_quiz_questions
                            THEN b.current_concept_idx
                            ELSE (b.current_concept_idx + 1) % Len(s.concepts)
                      /\ b.concepts = s.concepts

\* Two answers have been judged wrong at level 1: the backup holds one
\* record, the same score and level, and the concept index before the
\* second.
C24_Witness ==
    \E sid \in Live \cap Backed :
        LET s == SESSIONS[sid]
            b == SESSION_BACKUPS[sid]
        IN /\ resp.op = "answer" /\ resp.session_id = sid /\ ~resp.is_correct
           /\ Len(s.history) = 2 /\ Len(b.history) = 1
           /\ s.score = 0 /\ b.score = 0
           /\ s.level = 1 /\ b.level = 1
           /\ b.current_concept_idx = 1 /\ s.current_concept_idx = 2

\* generate_report's correct_answers: it is incremented with the correct
\* count of the entry's skill.
RECURSIVE SumCorrect(_, _)
SumCorrect(performance, skills) ==
    IF skills = {} THEN 0
    ELSE LET skill == CHOOSE x \in skills : TRUE
         IN performance[skill].correct + SumCorrect(performance, skills \ {skill})

\* C25: in every reachable state the score of a session, live or backed
\* up, is the number of its history records whose feedback generate_report
\* judges correct; hence score <= len(history), and the count of correct
\* answers that generate_report computes is the session's score.
C25_ScoreCountsCorrect ==
    /\ \A sid \in Live :
          LET s == SESSIONS[sid]
              h == s.history
              p == skill_performance(h)
          IN /\ s.score = Cardinality({i \in 1..Len(h) :
                               generate_report_counts_correct(h[i].feedback)})
             /\ s.score <= Len(h)
             /\ SumCorrect(p, DOMAIN p) = s.score
    /\ \A sid \in Backed :
          LET b == SESSION_BACKUPS[sid]
          IN b.score = Cardinality({i \in 1..Len(b.history) :
                           generate_report_counts_correct(b.history[i].feedback)})

\* A session holds an answer judged right and one that the model called
\* right with a reason that says "not correct": its score is 1.
C25_Witness ==
    \E sid \in Live :
        LET s == SESSIONS[sid]
        IN /\ Len(s.history) = 2
           /\ s.history[1].feedback = "Correct"
           /\ s.history[2].feedback = "CorrectNotCorrect"
           /\ s.score = 1

\* C26: the sweep inside a completing /answer never removes the session
\* that completed, whose last_activity the same request refreshed, so a
\* /report that follows finds it; and a live session leaves the live map
\* only in the sweep of another session's completing /answer, when its
\* last_activity is more than 30 minutes old (a failed /start removes only
\* the entry it had created itself).
C26_CompletedSurvivesSweep ==
    [][/\ \A sid \in Live \ DOMAIN SESSIONS' :
             /\ resp'.op = "answer" /\ resp'.quiz_complete
             /\ resp'.session_id # sid
             /\ now - SESSIONS[sid].last_activity > SessionTimeoutMinutes
       /\ (resp'.op = "answer" /\ resp'.status = 200 /\ resp'.quiz_complete) =>
             LET sid == resp'.session_id
                 after == Store(SESSIONS', SESSION_BACKUPS', shared')
             IN /\ sid \in DOMAIN SESSIONS'
                /\ QuizComplete(SESSIONS'[sid])
                /\ ~Expired(SESSIONS'[sid], now)
                /\ get_or_recover(after, sid) = after
       /\ (resp'.op = "start" /\ resp'.status # 200) => DOMAIN SESSIONS' = Live
    ]_vars

\* A report has been served for a quiz that completed after the clock had
\* passed the 30 minutes.
C26_Witness ==
    /\ resp.op = "report" /\ resp.status = 200
    /\ resp.session_id \in Live
    /\ QuizComplete(SESSIONS[resp.session_id])
    /\ now > SessionTimeoutMinutes
    /\ SESSIONS[resp.session_id].last_activity = now
    /\ resp.final_score = SESSIONS[resp.session_id].final_percentage_score

\* A step in which the sweep finishes with session sid, an /answer for sid
\* having been scored since the sweep removed its live entry: the live
\* entry is the backup restored, with one record more.
SweepEndsAfterAnswer(sid) ==
    /\ sweep.cur = sid
    /\ sweep'.cur = NoSession
    /\ sid \in Live \cap Backed
    /\ Len(SESSIONS[sid].history) = Len(SESSION_BACKUPS[sid].history) + 1

\* C27: when an /answer for a session runs between the steps of a sweep
\* that has selected the session as expired, the store ends as if the two
\* had run one after the other: either the sweep came last and the session
\* is in neither map, or the submission is recorded on top of all that the
\* session held and the session is live with its backup; no record is
\* lost, and no entry is left in one map without the other.
C27_InterleavingSerializable ==
    [][\A sid \in SessionIds :
          SweepEndsAfterAnswer(sid) =>
              \/ sid \notin DOMAIN SESSIONS' \cup DOMAIN SESSION_BACKUPS'
              \/ /\ sid \in DOMAIN SESSIONS' \cap DOMAIN SESSION_BACKUPS'
                 /\ SESSIONS'[sid].history =
                       Append(sweep.lost.history, Last(SESSIONS[sid].history))
                 /\ SESSION_BACKUPS'[sid].history = sweep.lost.history
    ]_vars

\* C28: whenever /report is served for a session with at least one
\* answered question, the final score it passes to the report is
\* 100 * (records judged correct) / (records), computed on the history as
\* it is then, however many /report and /answer requests came before.
C28_ReportScoreIsCurrent ==
    (resp.op = "report" /\ resp.status = 200 /\ resp.session_id \in Live) =>
        LET h == SESSIONS[resp.session_id].history
        IN Len(h) >= 1 =>
              resp.final_score =
                 Percentage(CountCorrect(h, report_counts_correct), Len(h))

\* C29: a /start that answers with an error (no topic or username, no
\* concepts, or no first question) leaves both maps exactly as they were:
\* the id it drew is in neither map, and every other session and backup
\* is as before.
C29_FailedStartFrame ==
    [][\A topic \in Topics, username \in Usernames, session_id \in SessionIds,
          concepts_reply \in ConceptReplies, question_reply \in QuestionReplies({}) :
          (/\ resp'.op = "start" /\ resp'.status # 200
           /\ FreshId(session_id)
           /\ start(topic, username, session_id, concepts_reply, question_reply)) =>
              /\ resp'.status \in {400, 500}
              /\ SESSIONS' = SESSIONS
              /\ SESSION_BACKUPS' = SESSION_BACKUPS
              /\ session_id \notin DOMAIN SESSIONS' \cup DOMAIN SESSION_BACKUPS'
    ]_vars

\* A /start has failed for lack of concepts beside a session that holds
\* an answer and a backup.
C29_Witness ==
    /\ resp.op = "start" /\ resp.status = 500
    /\ resp.concept_attempts = 1 /\ resp.question_attempts = 0
    /\ Live = {1} /\ Backed = {1}
    /\ SESSIONS[1].history # << >>

====
